---- MODULE Spec2Model ----
(***************************************************************************)
(* Model of the adaptive polling engine `Poll`                             *)
(* (src/packages/settingeditor/package.json, lines 66-513).                *)
(*                                                                         *)
(* One poll instance on a single-threaded host.  Every handler of the      *)
(* class (gate continuation, dispose, refresh, timer/frame callback,       *)
(* factory continuation, `ticked` continuation) is one atomic action.      *)
(* Durations are whole milliseconds; the variance is a rational            *)
(* numerator over VarDen.                                                  *)
(***************************************************************************)
EXTENDS Integers, Sequences, FiniteSets, TLC

\* ------------------------------------------------------------------ bounds
\* Largest number of tick promises (PromiseDelegate objects) ever created.
MaxTicks == 5
\* Largest number of dispose() calls made on one poll.
MaxDisposeCalls == 2
\* Largest base, and largest min / max, Private.jitter is called with on its own.
MaxBase == 4
MaxClamp == 3

\* ------------------------------------------------------- program constants
DefaultInterval == 1000
DefaultMaxFactor == 10
DefaultMin == 100
\* Denominator of the rational representation of `variance`.
VarDen == 10
\* 0.2, as a numerator over VarDen.
DefaultVariance == 2

\* `undefined` for a numeric option, `null` for a payload / a tick.
None == -1000000
NULL == "null"
NoTick == 0

Abs(x) == IF x < 0 THEN -x ELSE x
MathMin(a, b) == IF a < b THEN a ELSE b
MathMax(a, b) == IF a > b THEN a ELSE b

\* JavaScript `a > b` on numbers-or-undefined: false when either is undefined.
Gt(a, b) == a # None /\ b # None /\ a > b

\* ------------------------------------------------------------ constructor
\* The two guards at the top of the constructor.
Throws(o) ==
    \/ Gt(o.interval, o.max)
    \/ Gt(o.min, o.max)
    \/ Gt(o.min, o.interval)

CfgInterval(o) == IF o.interval # None THEN Abs(o.interval) ELSE DefaultInterval
CfgMax(o) == IF o.max # None THEN Abs(o.max) ELSE DefaultMaxFactor * CfgInterval(o)
CfgMin(o) == IF o.min # None THEN Abs(o.min) ELSE DefaultMin
CfgVariance(o) == IF o.variance # None THEN o.variance ELSE DefaultVariance

Configure(o) ==
    [interval |-> CfgInterval(o), max |-> CfgMax(o), min |-> CfgMin(o),
     variance |-> CfgVariance(o), when |-> o.when]

\* Options the poll is constructed with in this development.
Opt(i, mx, mn, v, w) == [interval |-> i, max |-> mx, min |-> mn, variance |-> v, when |-> w]
Options ==
    { Opt(1, 4, 1, 0, TRUE),
      Opt(1, 4, 1, 0, FALSE),
      Opt(1, 4, 1, 10, TRUE),
      Opt(2, 4, 1, 5, FALSE),
      Opt(1000, None, None, 0, TRUE),
      Opt(None, 500, None, 0, FALSE),
      Opt(3, 2, 1, 0, TRUE) }

\* ----------------------------------------------------------------- jitter
\* Integers c = Math.round(base + jitter) for some draw of Math.random():
\* base + jitter ranges over the open interval (base - A, base + A) with
\* A = base * |factor|, and Math.round(x) = c iff c - 1/2 <= x < c + 1/2.
Rounded(base, factor) ==
    LET a == Abs(base) * Abs(factor)
        lo2 == 2 * (base * VarDen - a)
        hi2 == 2 * (base * VarDen + a)
    IN  IF a = 0 THEN {base}
        ELSE { c \in (base - Abs(base) * ((Abs(factor) \div VarDen) + 1) - 1) ..
                     (base + Abs(base) * ((Abs(factor) \div VarDen) + 1) + 1) :
                 (2 * c - 1) * VarDen < hi2 /\ (2 * c + 1) * VarDen > lo2 }

\* Private.jitter: the set of values one call may return.
jitter(base, factor, min, max) ==
    IF factor = 0
    THEN {base}
    ELSE { MathMin(MathMax(min, Abs(c)), max) : c \in Rounded(base, factor) }

\* ------------------------------------------------------------------ state
VARIABLES
    constructed,  \* the constructor returned (did not throw)
    cfg,          \* interval, max, min, variance, when (readonly fields)
    isDisposed,   \* _isDisposed
    state,        \* _state: [interval, payload, phase, tick]
    tick,         \* _tick: id of the outstanding PromiseDelegate, NoTick = null
    promises,     \* status of every PromiseDelegate created, by id
    timeout,      \* _timeout: the handle stored by the last _schedule
    pending,      \* armed host callbacks: timers and animation-frame requests
    gate,         \* the `when` promise chain: "pending" or "settled"
    inflight,     \* polls whose factory promise has not settled yet
    emitQueue,    \* queued `poll.promise.then(() => ticked.emit())` reactions
    clock,        \* the reading `new Date().getTime()` returns next
    calls,        \* history: number of factory invocations
    dropped,      \* history: number of factory settlements that were ignored
    emitted,      \* history: number of `ticked` emissions
    cause,        \* history: which handler installed the current state, over which phase
    run,          \* history: the current run of consecutive accepted failures
    everTick,     \* history: every id `_tick` has held
    disposedEmits,\* history: number of `disposed` emissions
    disposeCalls, \* history: number of dispose() calls
    refreshed,    \* history: the promise the last refresh() returned
    jcall         \* one call of Private.jitter: its arguments and its result

vars == <<jcall, constructed, cfg, isDisposed, state, tick, promises, timeout, pending,
          gate, inflight, emitQueue, clock, calls, dropped, emitted, cause, run,
          everTick, disposedEmits, disposeCalls, refreshed>>

Phases == {"reconnect", "refresh", "rejected", "resolved", "standby",
           "when-rejected", "when-resolved"}

NoHandle == [kind |-> "none", poll |-> NoTick]
NoRun == [base |-> 0, k |-> 0, increased |-> 0]

\* Poll.State
State(i, pl, ph, t) == [interval |-> i, payload |-> pl, phase |-> ph, tick |-> t]

\* --------------------------------------------------------------- _schedule
\* _schedule keeping the latest promise instead of creating one.
NewPoll_Reused(ps) == Len(ps)

\* `new PromiseDelegate()`: a promise that did not exist before.
NewPoll(ps) == Len(ps) + 1

\* _schedule always using a timer.
Arm_AlwaysTimer(st, poll) == [kind |-> "timer", poll |-> poll]

\* `state.interval ? setTimeout(request, state.interval)
\*                 : requestAnimationFrame(request)`
Arm(st, poll) == [kind |-> IF st.interval # 0 THEN "timer" ELSE "frame", poll |-> poll]

\* `clearTimeout(this._timeout)`: cancels the timer with that handle; a handle
\* returned by requestAnimationFrame names no timer.
ClearTimeout(armed, handle) == armed \ {h \in armed : h = handle /\ h.kind = "timer"}

\* Poll._schedule
Schedule(st, armed) ==
    /\ state' = st
    /\ tick' = NewPoll(promises)
    /\ pending' = ClearTimeout(armed, timeout) \cup {Arm(st, NewPoll(promises))}
    /\ timeout' = Arm(st, NewPoll(promises))
    /\ everTick' = everTick \cup {NewPoll(promises)}

\* ---------------------------------------------------------------- _resolve
\* `poll.resolve(this)`: settles a pending promise, no effect on a settled one.
Settle(ps, poll, how) == IF ps[poll] = "pending" THEN [ps EXCEPT ![poll] = how] ELSE ps

\* `if (poll) { poll.promise.then(emit); poll.resolve(this); }`
ResolvePoll(ps, poll) == IF poll # NoTick THEN Settle(ps, poll, "resolved") ELSE ps

\* The reaction `() => this._ticked.emit()` is queued once `poll` is resolved.
Reactions(q, ps, poll, inst, prev) ==
    IF poll # NoTick /\ ResolvePoll(ps, poll)[poll] = "resolved"
    THEN Append(q, [inst |-> inst, poll |-> poll, prev |-> prev])
    ELSE q

\* Poll._resolve.  `armed` is the host's set of armed callbacks when the
\* handler runs; `why` and `r` record the caller for the history variables.
Resolve(poll, st, armed, why, r) ==
    /\ Len(promises) < MaxTicks
    /\ Schedule(st, armed)
    /\ promises' = ResolvePoll(Append(promises, "pending"), poll)
    /\ emitQueue' = Reactions(emitQueue, promises, poll, clock, tick)
    /\ clock' = clock + 1
    /\ cause' = [by |-> why, over |-> state.phase]
    /\ run' = r

\* ------------------------------------------------------------------- Init
\* The poll `new Poll(o)` leaves behind.
Construct(o) ==
        /\ constructed = ~Throws(o)
        /\ cfg = Configure(o)
        /\ isDisposed = FALSE
        /\ state = State(CfgInterval(o), NULL, "standby", 0)
        /\ tick = 1
        /\ promises = <<"pending">>
        /\ timeout = NoHandle
        /\ pending = {}
        /\ gate = "pending"
        /\ inflight = {}
        /\ emitQueue = <<>>
        /\ clock = 1
        /\ calls = 0
        /\ dropped = 0
        /\ emitted = 0
        /\ cause = [by |-> "constructor", over |-> "none"]
        /\ run = NoRun
        /\ everTick = {1}
        /\ disposedEmits = 0
        /\ disposeCalls = 0
        /\ refreshed = NoTick

\* No call of Private.jitter is under study.
NoCall == [base |-> 0, factor |-> 0, min |-> 0, max |-> 0, result |-> None]

Init ==
    /\ \E o \in Options : Construct(o)
    /\ jcall = NoCall

\* ------------------------------------------------------ gate continuation
\* The phase the `.then` / `.catch` continuation of `when` installs.
GatePhase(ok) == IF ok THEN "when-resolved" ELSE "when-rejected"

\* The continuation of `(when || Promise.resolve())`; the poll it resolves is
\* the constructor's local `poll`, the first tick promise.
GateSettle(ok) ==
    /\ constructed
    /\ gate = "pending"
    /\ ok \/ cfg.when
    /\ gate' = "settled"
    /\ IF isDisposed
       THEN UNCHANGED <<state, tick, promises, timeout, pending, emitQueue,
                        clock, cause, run, everTick>>
       ELSE Resolve(1, State(cfg.interval, NULL, GatePhase(ok), clock), pending, "gate", NoRun)
    /\ UNCHANGED <<disposedEmits, disposeCalls, refreshed, jcall, constructed, cfg, isDisposed,
                   inflight, calls, dropped, emitted>>

\* ---------------------------------------------------------------- dispose
\* dispose() dropping the outstanding tick without rejecting it.
RejectPoll_Noop(ps, poll) == ps

\* `poll.reject(new Error(...))`
RejectPoll(ps, poll) == IF poll # NoTick THEN Settle(ps, poll, "rejected") ELSE ps

\* dispose() without its guard.
AlreadyDisposed_NoGuard(disposed) == FALSE

\* `if (this._isDisposed) { return; }` at the top of dispose.
AlreadyDisposed(disposed) == disposed

\* Poll.dispose
Dispose ==
    /\ constructed
    /\ disposeCalls < MaxDisposeCalls
    /\ disposeCalls' = disposeCalls + 1
    /\ IF AlreadyDisposed(isDisposed)
       THEN UNCHANGED <<isDisposed, tick, promises, disposedEmits>>
       ELSE /\ isDisposed' = TRUE
            /\ tick' = NoTick
            /\ promises' = RejectPoll(promises, tick)
            /\ disposedEmits' = disposedEmits + 1
    /\ UNCHANGED <<refreshed, jcall, constructed, cfg, state, timeout, pending, gate, inflight,
                   emitQueue, clock, calls, dropped, emitted, cause, run, everTick>>

\* ---------------------------------------------------------------- refresh
\* Poll.refresh
Refresh ==
    /\ constructed
    /\ Resolve(tick, State(0, NULL, "refresh", clock), pending, "refresh", NoRun)
    /\ refreshed' = tick'
    /\ UNCHANGED <<disposedEmits, disposeCalls, jcall, constructed, cfg, isDisposed,
                   gate, inflight, calls, dropped, emitted>>

\* --------------------------------------------------------------- _execute
\* _execute without its disposal check.
ExecuteBails_NoCheck(disposed) == FALSE

\* `if (this._isDisposed) { return; }` at the top of _execute.
ExecuteBails(disposed) == disposed

\* The hidden branch keeping the interval of the state it replaces.
HiddenState_KeepInterval(prior, j, now) == State(prior.interval, NULL, "standby", now)

\* The hidden branch keeping the payload of the state it replaces.
HiddenState_KeepPayload(prior, j, now) == State(j, prior.payload, "standby", now)

\* The state the hidden branch installs over `this._state` (= prior); j is
\* the value of `Private.jitter(this.interval, variance, min, max)`.
HiddenState(prior, j, now) == State(j, NULL, "standby", now)

\* Without `when` the gate is `Promise.resolve()`: its continuation is queued
\* by the constructor itself, ahead of every other promise reaction.
GateQueued == ~cfg.when /\ gate = "pending"

\* Poll._execute, run by the timer or animation-frame callback `h`; `hidden`
\* is what `document.hidden` reads.  A host callback starts only when no
\* promise reaction is queued.
Execute(h, hidden) ==
    /\ constructed
    /\ h \in pending
    /\ emitQueue = <<>> /\ ~GateQueued
    /\ IF ExecuteBails(isDisposed)
       THEN /\ pending' = pending \ {h}
            /\ UNCHANGED <<state, tick, promises, timeout, emitQueue, clock,
                           cause, run, everTick, inflight, calls>>
       ELSE IF hidden
       THEN /\ \E j \in jitter(cfg.interval, cfg.variance, cfg.min, cfg.max) :
                 Resolve(h.poll, HiddenState(state, j, clock),
                         pending \ {h}, "hidden", NoRun)
            /\ UNCHANGED <<inflight, calls>>
       ELSE /\ pending' = pending \ {h}
            /\ inflight' = inflight \cup {h.poll}
            /\ calls' = calls + 1
            /\ UNCHANGED <<state, tick, promises, timeout, emitQueue, clock,
                           cause, run, everTick>>
    /\ UNCHANGED <<disposedEmits, disposeCalls, refreshed, jcall, constructed, cfg, isDisposed,
                   gate, dropped, emitted>>

\* ---------------------------------------------------- factory continuations
\* The continuation without its supersession check.
Bails_DisposedOnly(disposed, poll, current) == disposed

\* The supersession check inverted.
Bails_Inverted(disposed, poll, current) == disposed \/ poll = current

\* `if (this._isDisposed) return; if (poll !== this._tick) return;`
Bails(disposed, poll, current) == disposed \/ poll # current

\* A success that never reports a reconnection.
SuccessPhase_AlwaysResolved(phase) == "resolved"

\* `this._state.phase === 'rejected' ? 'reconnect' : 'resolved'`
SuccessPhase(phase) == IF phase = "rejected" THEN "reconnect" ELSE "resolved"

\* The `.then` continuation of the factory promise of `poll`.
FactoryResolve(poll, resolved) ==
    /\ constructed
    /\ poll \in inflight
    /\ inflight' = inflight \ {poll}
    /\ IF Bails(isDisposed, poll, tick)
       THEN UNCHANGED <<state, tick, promises, timeout, pending, emitQueue,
                        clock, cause, run, everTick>>
       ELSE \E j \in jitter(cfg.interval, cfg.variance, cfg.min, cfg.max) :
                Resolve(poll, State(j, resolved, SuccessPhase(state.phase), clock),
                        pending, "success", NoRun)
    /\ dropped' = IF Bails(isDisposed, poll, tick) THEN dropped + 1 ELSE dropped
    /\ UNCHANGED <<disposedEmits, disposeCalls, refreshed, jcall, constructed, cfg, isDisposed,
                   gate, calls, emitted>>

\* Doubling that is not capped at max.
Increased_Uncapped(interval, max) == interval * 2

\* Linear instead of exponential growth.
Increased_Linear(interval, max) == MathMin(interval + 1, max)

\* `Math.min(this._state.interval * 2, max)`
Increased(interval, max) == MathMin(interval * 2, max)

\* History of the run of consecutive accepted failures this failure extends.
Extend(r, why, prior, increased) ==
    IF why = "failure"
    THEN [base |-> r.base, k |-> r.k + 1, increased |-> increased]
    ELSE [base |-> prior, k |-> 1, increased |-> increased]

\* The `.catch` continuation of the factory promise of `poll`.
FactoryReject(poll, rejected) ==
    /\ constructed
    /\ poll \in inflight
    /\ inflight' = inflight \ {poll}
    /\ IF Bails(isDisposed, poll, tick)
       THEN UNCHANGED <<state, tick, promises, timeout, pending, emitQueue,
                        clock, cause, run, everTick>>
       ELSE \E j \in jitter(Increased(state.interval, cfg.max), cfg.variance,
                            cfg.min, cfg.max) :
                Resolve(poll, State(j, rejected, "rejected", clock), pending, "failure",
                        Extend(run, cause.by, state.interval,
                               Increased(state.interval, cfg.max)))
    /\ dropped' = IF Bails(isDisposed, poll, tick) THEN dropped + 1 ELSE dropped
    /\ UNCHANGED <<disposedEmits, disposeCalls, refreshed, jcall, constructed, cfg, isDisposed,
                   gate, calls, emitted>>

\* ------------------------------------------------------ ticked continuation
\* The reaction `() => { this._ticked.emit(); }` at the head of the queue.
Emit ==
    /\ constructed
    /\ emitQueue # <<>> /\ ~GateQueued
    /\ emitQueue' = Tail(emitQueue)
    /\ emitted' = emitted + 1
    /\ UNCHANGED <<disposedEmits, disposeCalls, refreshed, jcall, constructed, cfg, isDisposed,
                   state, tick, promises, timeout,
                   pending, gate, inflight, clock, calls, dropped, cause, run, everTick>>

\* ------------------------------------------------------------------- Next
Resolved == {"val"}
Rejected == {"err"}

Next ==
    \/ \E ok \in BOOLEAN : GateSettle(ok)
    \/ Dispose
    \/ Refresh
    \/ \E h \in pending, hidden \in BOOLEAN : Execute(h, hidden)
    \/ \E poll \in inflight, v \in Resolved : FactoryResolve(poll, v)
    \/ \E poll \in inflight, r \in Rejected : FactoryReject(poll, r)
    \/ Emit

Spec == Init /\ [][Next]_vars

TypeOK ==
    /\ isDisposed \in BOOLEAN
    /\ state.phase \in Phases
    /\ tick \in 0 .. MaxTicks
    /\ Len(promises) <= MaxTicks

\* ------------------------------------------------- Private.jitter on its own
\* The variables of the poll.
pollVars == <<constructed, cfg, isDisposed, state, tick, promises, timeout, pending,
              gate, inflight, emitQueue, clock, calls, dropped, emitted, cause, run,
              everTick, disposedEmits, disposeCalls, refreshed>>

\* Variances jitter is called with: 0, 0.2, 0.5, 1.
Factors == {0, DefaultVariance, 5, VarDen}

\* The calls jitter(base, factor, min, max) with base >= 0 and min <= max.
JitterInit ==
    /\ Construct(Opt(1, 4, 1, 0, FALSE))
    /\ \E b \in 0 .. MaxBase, f \in Factors, mn \in 0 .. MaxClamp, mx \in 0 .. MaxClamp :
          /\ mn <= mx
          /\ jcall = [base |-> b, factor |-> f, min |-> mn, max |-> mx, result |-> None]

\* One call of Private.jitter returns.
JitterReturn ==
    /\ jcall.result = None
    /\ \E r \in jitter(jcall.base, jcall.factor, jcall.min, jcall.max) :
          jcall' = [jcall EXCEPT !.result = r]
    /\ UNCHANGED pollVars

JitterNext == JitterReturn

JitterSpec == JitterInit /\ [][JitterNext]_vars

\* ------------------------------------------------------------ fair scheduling
\* The host runs every queued reaction, fires every armed timer and frame,
\* and the gate and every factory promise settle.
Fairness ==
    /\ WF_vars(\E ok \in BOOLEAN : GateSettle(ok))
    /\ WF_vars(Emit)
    /\ \A p \in 1 .. MaxTicks :
          WF_vars(\E h \in pending, hidden \in BOOLEAN : h.poll = p /\ Execute(h, hidden))
    /\ \A p \in 1 .. MaxTicks :
          WF_vars((\E v \in Resolved : FactoryResolve(p, v))
                     \/ (\E r \in Rejected : FactoryReject(p, r)))

\* The polls followed under fair scheduling: with and without a gate, with
\* and without jitter.
FairOptions ==
    { Opt(1, 4, 1, 0, TRUE),
      Opt(1, 4, 1, 0, FALSE),
      Opt(2, 4, 1, 5, FALSE) }

FairInit ==
    /\ \E o \in FairOptions : Construct(o)
    /\ jcall = NoCall

FairSpec == FairInit /\ [][Next]_vars /\ Fairness

\* ================================================================== claims
\* The configuration satisfies the relations the constructor validates.
ValidConfig == cfg.min <= cfg.interval /\ cfg.interval <= cfg.max

\* At least one state has been installed since construction.
Scheduled == clock > 1

RECURSIVE Pow2(_)
Pow2(k) == IF k = 0 THEN 1 ELSE 2 * Pow2(k - 1)

\* ceil(log2(max / i)) for i > 0: the least k with i * 2^k >= max.
CeilLog2(max, i) == CHOOSE k \in 0 .. 20 :
    /\ i * Pow2(k) >= max
    /\ \A m \in 0 .. (k - 1) : i * Pow2(m) < max

\* C1: for a valid configuration, every state installed from the first
\* scheduled tick on has min <= interval <= max, except the states of phase
\* 'refresh', whose interval is 0.
C1_IntervalInRange ==
    (constructed /\ ValidConfig /\ Scheduled) =>
        IF state.phase = "refresh"
        THEN state.interval = 0
        ELSE cfg.min <= state.interval /\ state.interval <= cfg.max

\* C2: once the poll is disposed, no step changes the state record or the
\* outstanding tick.
C2_FrozenAfterDispose ==
    [][isDisposed => (state' = state /\ tick' = tick)]_vars

\* C3: once the poll is disposed, no step invokes the factory.
C3_NoFactoryAfterDispose ==
    [][isDisposed => calls' = calls]_vars

\* A callback fired on a disposed poll (every armed callback has fired, and
\* none of them reached the factory).
C3_Witness ==
    isDisposed /\ Scheduled /\ pending = {} /\ calls = 0

\* C4: the settlement of a factory call whose tick is no longer the
\* outstanding one installs no state, resolves no promise and queues or
\* emits no `ticked`.
C4_StaleSettlementIgnored ==
    [][\A p \in inflight \ inflight' :
          p # tick => UNCHANGED <<state, tick, promises, timeout, pending,
                                  emitQueue, emitted, clock>>]_vars

\* A factory call settled, and was ignored, on a live poll.
C4_Witness ==
    ~isDisposed /\ dropped > 0

\* C5: with a gate supplied, the factory is not invoked while the gate is
\* pending.
C5_NoCallBeforeGate ==
    (constructed /\ cfg.when /\ gate = "pending") => calls = 0

\* C6: with variance 0, the k-th consecutive accepted failure starting from
\* interval I installs 'rejected' with interval min(I * 2^k, max) and the
\* failure reason as payload.
C6_BackoffSequence ==
    (constructed /\ cfg.variance = 0 /\ cause.by = "failure") =>
        /\ run.k >= 1
        /\ state.phase = "rejected"
        /\ state.interval = MathMin(run.base * Pow2(run.k), cfg.max)
        /\ state.payload \in Rejected

\* Three consecutive failures, the last one clamped at max.
C6_Witness ==
    /\ cfg.variance = 0 /\ cause.by = "failure" /\ run.k >= 3
    /\ run.base > 0 /\ run.base * Pow2(run.k) > cfg.max
    /\ state.interval = cfg.max

\* C7 as stated: for any variance, the ceil(log2(max / I))-th consecutive
\* accepted failure starting from the configured interval I > 0 hands max to
\* jitter.
C7_BaseReachesMax_AnyVariance ==
    (constructed /\ ValidConfig /\ cause.by = "failure" /\ run.base = cfg.interval
        /\ run.base > 0 /\ run.k = CeilLog2(cfg.max, run.base))
    => run.increased = cfg.max

\* C7 amended: with variance 0, from the ceil(log2(max / I))-th consecutive
\* accepted failure on (starting from an installed interval I > 0) the value
\* handed to jitter is max.
C7_BaseReachesMax ==
    (constructed /\ cfg.variance = 0 /\ cause.by = "failure" /\ run.base > 0
        /\ run.k >= CeilLog2(cfg.max, run.base))
    => run.increased = cfg.max

\* A run that needed two doublings to reach max.
C7_Witness ==
    /\ cfg.variance = 0 /\ cause.by = "failure" /\ run.base > 0
    /\ CeilLog2(cfg.max, run.base) >= 2
    /\ run.k = CeilLog2(cfg.max, run.base)
    /\ run.increased = cfg.max

\* C8: an accepted success installs 'reconnect' iff it replaces a 'rejected'
\* state and 'resolved' otherwise, with the success value as payload and an
\* interval drawn from jitter(configured interval): inside [min, max] for a
\* valid configuration, the configured interval when variance is 0.
C8_SuccessPhase ==
    [][(cause'.by = "success" /\ clock' # clock) =>
          /\ state'.phase = (IF state.phase = "rejected" THEN "reconnect" ELSE "resolved")
          /\ state'.payload \in Resolved
          /\ ValidConfig => (cfg.min <= state'.interval /\ state'.interval <= cfg.max)
          /\ cfg.variance = 0 => state'.interval = cfg.interval]_vars

\* A success right after a failure with a doubled interval.
C8_Witness ==
    /\ cause.by = "success" /\ state.phase = "reconnect"
    /\ cfg.variance = 0 /\ state.interval = cfg.interval

\* C9: a live poll has an outstanding tick promise, and every installation
\* makes a promise outstanding that never was before.
C9_FreshTick ==
    /\ [](constructed /\ ~isDisposed => tick # NoTick /\ promises[tick] = "pending")
    /\ [][clock' # clock => (tick' # NoTick /\ tick' \notin everTick)]_vars

\* A live poll on its fourth tick promise.
C9_Witness ==
    ~isDisposed /\ Cardinality(everTick) >= 4 /\ tick \in everTick

\* C10: `ticked` for tick N is emitted after the tick promise that was
\* outstanding for tick N has been resolved; on a live poll the emissions
\* are one-to-one with the installations and in installation order.
C10_TickedAfterTick ==
    /\ [][emitted' # emitted =>
            /\ promises[Head(emitQueue).prev] = "resolved"
            /\ ~isDisposed => Head(emitQueue).inst = emitted + 1]_vars
    /\ [](constructed /\ ~isDisposed => emitted + Len(emitQueue) = clock - 1)

\* Factory settlements that installed a state.
Accepted == calls - dropped - Cardinality(inflight)

\* C11: `disposed` is emitted exactly once, at the first dispose(); isDisposed
\* never goes back to false; a dispose() on a disposed poll changes nothing.
C11_DisposeIdempotent ==
    /\ [](disposedEmits = IF isDisposed THEN 1 ELSE 0)
    /\ [][isDisposed => isDisposed']_vars
    /\ [][(isDisposed /\ disposeCalls' # disposeCalls) =>
             UNCHANGED <<isDisposed, state, tick, promises, timeout, pending, gate,
                         inflight, emitQueue, emitted, disposedEmits>>]_vars

\* dispose() was called twice.
C11_Witness ==
    isDisposed /\ disposeCalls >= 2 /\ disposedEmits = 1

\* C12: dispose() with a factory call in flight rejects the tick promise that
\* is outstanding, and a factory settlement on the disposed poll changes no
\* state and queues or emits no `ticked`.
C12_DisposeInFlight ==
    /\ [][(~isDisposed /\ isDisposed' /\ inflight # {}) =>
             /\ tick # NoTick
             /\ promises[tick] = "pending"
             /\ promises'[tick] = "rejected"]_vars
    /\ [][(isDisposed /\ inflight' # inflight) =>
             UNCHANGED <<state, tick, promises, timeout, pending, emitQueue,
                         emitted, clock>>]_vars

\* The only factory call of the poll was in flight at dispose() and has
\* settled since.
C12_Witness ==
    /\ isDisposed /\ cause.by = "gate" /\ clock = 2
    /\ calls = 1 /\ dropped = 1 /\ promises[2] = "rejected"

\* C13: refresh() on a live poll installs {phase 'refresh', interval 0,
\* payload null}, resolves the tick promise outstanding before the call,
\* returns the promise of the new outstanding tick and arms an animation
\* frame, not a timer.
C13_Refresh ==
    [][(cause'.by = "refresh" /\ clock' # clock /\ ~isDisposed) =>
          /\ state'.phase = "refresh" /\ state'.interval = 0 /\ state'.payload = NULL
          /\ promises[tick] = "pending" /\ promises'[tick] = "resolved"
          /\ tick' \notin DOMAIN promises /\ promises'[tick'] = "pending"
          /\ refreshed' = tick'
          /\ [kind |-> "frame", poll |-> tick'] \in pending'
          /\ [kind |-> "timer", poll |-> tick'] \notin pending'
          /\ timeout'.kind = "frame"]_vars

\* refresh() in the middle of a backoff.
C13_Witness ==
    /\ ~isDisposed /\ cause.by = "refresh" /\ cause.over = "rejected"
    /\ refreshed = tick /\ state.interval = 0

\* C14: every poll the constructor returns satisfies min <= interval <= max
\* (a violation of the effective values is reported as an error).
C14_ConstructedIsValid ==
    constructed => ValidConfig

\* C15: the payload is null in every phase other than 'resolved',
\* 'rejected' and 'reconnect'.
C15_PayloadNull ==
    (constructed /\ state.phase \notin {"resolved", "rejected", "reconnect"})
        => state.payload = NULL

\* A hidden tick after the factory had delivered a payload.
C15_Witness ==
    /\ state.phase = "standby" /\ cause.by = "hidden"
    /\ cause.over \in {"resolved", "reconnect"} /\ state.payload = NULL

\* C16: a firing on a live poll while the host is hidden does not invoke the
\* factory and installs {phase 'standby', payload null} with an interval
\* drawn from jitter(configured interval), never the doubled one, and arms a
\* new wake-up; a firing while the host is visible invokes the factory.
C16_HiddenTick ==
    /\ [][(cause'.by = "hidden" /\ clock' # clock) =>
             /\ calls' = calls /\ inflight' = inflight
             /\ state'.phase = "standby" /\ state'.payload = NULL
             /\ state'.interval \in jitter(cfg.interval, cfg.variance, cfg.min, cfg.max)
             /\ cfg.variance = 0 => state'.interval = cfg.interval
             /\ ValidConfig => (cfg.min <= state'.interval /\ state'.interval <= cfg.max)
             /\ Arm(state', tick') \in pending']_vars
    /\ [][(~isDisposed /\ clock' = clock /\ pending' # pending) =>
             calls' = calls + 1]_vars

\* A hidden tick in the middle of a backoff, back at the configured interval.
C16_Witness ==
    /\ ~isDisposed /\ cause.by = "hidden" /\ cause.over = "rejected"
    /\ cfg.variance = 0 /\ state.interval = cfg.interval

\* C17: at most one timer or frame callback is pending.
C17_OnePending ==
    Cardinality(pending) <= 1

\* C18: a callback that fires for a tick that is no longer the outstanding
\* one neither invokes the factory nor installs a state.
C18_StaleCallbackIgnored ==
    /\ [][(clock' = clock /\ \E h \in pending \ pending' : h.poll # tick) =>
             calls' = calls]_vars
    /\ [][(cause'.by = "hidden" /\ clock' # clock) =>
             emitQueue'[Len(emitQueue')].poll = tick]_vars

\* C19: every installation on a live poll resolves the tick promise that was
\* outstanding immediately before it, which was still pending.
C19_ResolvesOutstanding ==
    [][(clock' # clock /\ ~isDisposed) =>
          promises[tick] = "pending" /\ promises'[tick] = "resolved"]_vars

\* C20: 'when-resolved' / 'when-rejected' are installed only by the gate
\* continuation, once, over a 'standby' state, with the configured interval
\* and payload null.
C20_GatePhases ==
    [][(clock' # clock /\ state'.phase \in {"when-resolved", "when-rejected"}) =>
          /\ cause'.by = "gate" /\ gate = "pending" /\ gate' = "settled"
          /\ state.phase = "standby"
          /\ state'.interval = cfg.interval /\ state'.payload = NULL]_vars

\* C21: jitter returns a value in [min, max], and with factor 0 it returns
\* round(base) clamped into [min, max].
C21_JitterClamped ==
    jcall.result # None =>
        /\ jcall.min <= jcall.result /\ jcall.result <= jcall.max
        /\ jcall.factor = 0 =>
             jcall.result = MathMin(MathMax(jcall.min, jcall.base), jcall.max)

\* C22: an accepted failure that replaces a 'refresh' state installs
\* 'rejected' with interval min, whatever the variance.
C22_FailureAfterRefresh ==
    (constructed /\ ValidConfig /\ cause.by = "failure" /\ cause.over = "refresh")
        => (state.phase = "rejected" /\ state.interval = cfg.min)

\* A timer, a frame or a factory call in flight owns the outstanding tick.
Owned ==
    \/ \E h \in pending : h.poll = tick
    \/ tick \in inflight

\* C23: on a live poll whose gate has settled the outstanding tick is owned
\* by a pending callback or an in-flight factory call, and under fair
\* scheduling another state is installed unless the poll is disposed (n counts
\* the tick promises created so far, up to the bound of the model).
C23_NeverStalls ==
    /\ [](constructed /\ ~isDisposed /\ gate = "settled" => Owned)
    /\ \A n \in 1 .. (MaxTicks - 1) :
          (constructed /\ gate = "settled" /\ clock = n) ~> (clock > n \/ isDisposed)

\* A live poll that went on after refresh(), a hidden tick and a factory
\* settlement.
C23_Witness ==
    /\ ~isDisposed /\ gate = "settled" /\ clock >= 4 /\ Accepted >= 1
    /\ cause.by \in {"success", "failure"} /\ cause.over \in {"refresh", "standby"}

\* The promise p has been resolved or rejected.
Settled(p) == p \in DOMAIN promises /\ promises[p] # "pending"

\* C24: under fair scheduling every promise that has been the outstanding
\* tick is eventually settled, unless it still is the outstanding tick of a
\* live poll (and settles with the next installation).
C24_TicksSettle ==
    \A p \in 1 .. MaxTicks :
        [](p \in everTick =>
              <>(Settled(p) \/ (p = tick /\ ~isDisposed)))

====
